---- MODULE Spec2Model ----
(***************************************************************************)
(* Cancellation dashboard (cancellation_dashboard.py): the load_data       *)
(* pipeline (trim, de-duplicate, fixed-format timestamp parse, derived     *)
(* columns), the sidebar filters, the by-reason and top-items tables and   *)
(* the CSV export, as a state machine over one Streamlit session.          *)
(*                                                                         *)
(* Text cells are sequences of one-character strings, so that trimming,    *)
(* timestamp parsing and timestamp formatting are computed character by    *)
(* character.  Amounts are integers (minor units); percentages are kept in *)
(* hundredths of a percent.                                                *)
(***************************************************************************)
EXTENDS Integers, Sequences, FiniteSets, TLC

VARIABLES
    source_csv,       \* rows of 'Cancellation_Report__May.csv' as read_csv yields them
    status,           \* "start" | "loaded" | "error" | "ran"
    df,               \* the cached result of load_data()
    date_range,       \* sidebar widget values
    selected_reason,
    selected_staff,
    selected_period,
    filtered_df,
    item_data,
    reason_summary,
    csv,              \* rows of the filtered download
    full_csv,         \* rows of the full download
    exported,         \* history: the subset whose download became source_csv
    reimported,       \* history: source_csv is a download of this program
    first_view,       \* history: the subset shown by the first script run
    visited_other     \* history: a later run has shown a different subset

vars == <<source_csv, status, df, date_range, selected_reason, selected_staff,
          selected_period, filtered_df, item_data, reason_summary, csv,
          full_csv, exported, reimported, first_view, visited_other>>

-----------------------------------------------------------------------------
(* Text *)

IsSpace(c) == c \in {" ", "\t", "\n", "\r"}

RECURSIVE LStrip(_)
LStrip(s) ==
    IF s = <<>> THEN s
    ELSE IF IsSpace(Head(s)) THEN LStrip(Tail(s)) ELSE s

RECURSIVE RStrip(_)
RStrip(s) ==
    IF s = <<>> THEN s
    ELSE IF IsSpace(s[Len(s)]) THEN RStrip(SubSeq(s, 1, Len(s) - 1)) ELSE s

\* Series.str.strip()
StrStrip(s) == RStrip(LStrip(s))

At(s, i) == IF i \in 1..Len(s) THEN s[i] ELSE ""

DigitVal ==
    "0" :> 0 @@ "1" :> 1 @@ "2" :> 2 @@ "3" :> 3 @@ "4" :> 4 @@
    "5" :> 5 @@ "6" :> 6 @@ "7" :> 7 @@ "8" :> 8 @@ "9" :> 9

DigitChar == <<"0", "1", "2", "3", "4", "5", "6", "7", "8", "9">>

IsDigit(c) == c \in DOMAIN DigitVal

RECURSIVE NumVal(_)
NumVal(s) ==
    IF s = <<>> THEN 0
    ELSE 10 * NumVal(SubSeq(s, 1, Len(s) - 1)) + DigitVal[s[Len(s)]]

\* the length of the run of digits of s at i, at most max long
DigitRun(s, i, max) ==
    LET ks == {k \in 0..max : \A j \in 0..(k - 1) : IsDigit(At(s, i + j))}
    IN  CHOOSE k \in ks : \A k2 \in ks : k2 <= k

\* the length of the run of whitespace of s at i
SpaceRun(s, i) ==
    LET ks == {k \in 0..Len(s) : \A j \in 0..(k - 1) : IsSpace(At(s, i + j))}
    IN  CHOOSE k \in ks : \A k2 \in ks : k2 <= k

LowerMap ==
    "A" :> "a" @@ "B" :> "b" @@ "C" :> "c" @@ "D" :> "d" @@ "E" :> "e" @@
    "F" :> "f" @@ "G" :> "g" @@ "H" :> "h" @@ "I" :> "i" @@ "J" :> "j" @@
    "K" :> "k" @@ "L" :> "l" @@ "M" :> "m" @@ "N" :> "n" @@ "O" :> "o" @@
    "P" :> "p" @@ "Q" :> "q" @@ "R" :> "r" @@ "S" :> "s" @@ "T" :> "t" @@
    "U" :> "u" @@ "V" :> "v" @@ "W" :> "w" @@ "X" :> "x" @@ "Y" :> "y" @@
    "Z" :> "z"

Lower(s) == [i \in 1..Len(s) |-> IF s[i] \in DOMAIN LowerMap THEN LowerMap[s[i]] ELSE s[i]]

Fmt2(n) == <<DigitChar[((n \div 10) % 10) + 1], DigitChar[(n % 10) + 1]>>

Fmt4(n) == Fmt2(n \div 100) \o Fmt2(n % 100)

-----------------------------------------------------------------------------
(* Calendar *)

MonthAbbr ==
    << <<"J", "a", "n">>, <<"F", "e", "b">>, <<"M", "a", "r">>, <<"A", "p", "r">>,
       <<"M", "a", "y">>, <<"J", "u", "n">>, <<"J", "u", "l">>, <<"A", "u", "g">>,
       <<"S", "e", "p">>, <<"O", "c", "t">>, <<"N", "o", "v">>, <<"D", "e", "c">> >>

\* 0 when s is no month abbreviation (%b matches case-insensitively)
MonthNum(s) ==
    IF \E m \in 1..12 : Lower(MonthAbbr[m]) = Lower(s)
    THEN CHOOSE m \in 1..12 : Lower(MonthAbbr[m]) = Lower(s)
    ELSE 0

IsLeap(y) == (y % 4 = 0 /\ y % 100 # 0) \/ y % 400 = 0

DaysInMonth(y, m) ==
    IF m = 2 THEN (IF IsLeap(y) THEN 29 ELSE 28)
    ELSE IF m \in {4, 6, 9, 11} THEN 30 ELSE 31

\* days since 1970-01-01 of a proleptic Gregorian date
DaysFromCivil(y, m, d) ==
    LET yy  == IF m <= 2 THEN y - 1 ELSE y
        era == yy \div 400
        yoe == yy - era * 400
        mp  == (m + 9) % 12
        doy == (153 * mp + 2) \div 5 + d - 1
        doe == yoe * 365 + yoe \div 4 - yoe \div 100 + doy
    IN  era * 146097 + doe - 719468

DayNames == <<"Monday", "Tuesday", "Wednesday", "Thursday", "Friday", "Saturday", "Sunday">>

\* Series.dt.day_name()
DayName(t) == DayNames[((DaysFromCivil(t.y, t.mo, t.d) + 3) % 7) + 1]

\* minutes since 1970-01-01 00:00
EpochMinutes(t) == (DaysFromCivil(t.y, t.mo, t.d) * 24 + t.h) * 60 + t.mi

NaT == [ok |-> FALSE, y |-> 0, mo |-> 0, d |-> 0, h |-> 0, mi |-> 0]

\* strptime with '%d-%b-%Y %I:%M %p', the whole text to match
Strptime(s) ==
    LET nd   == DigitRun(s, 1, 2)
        day  == NumVal(SubSeq(s, 1, nd))
        pM   == nd + 2
        mon  == MonthNum(SubSeq(s, pM, pM + 2))
        pY   == pM + 4
        year == NumVal(SubSeq(s, pY, pY + 3))
        pS1  == pY + 4
        ns1  == SpaceRun(s, pS1)
        pH   == pS1 + ns1
        nh   == DigitRun(s, pH, 2)
        hour == NumVal(SubSeq(s, pH, pH + nh - 1))
        pMi  == pH + nh + 1
        nm   == DigitRun(s, pMi, 2)
        min  == NumVal(SubSeq(s, pMi, pMi + nm - 1))
        pS2  == pMi + nm
        ns2  == SpaceRun(s, pS2)
        pP   == pS2 + ns2
        ampm == Lower(SubSeq(s, pP, pP + 1))
        shape ==
            /\ nd >= 1
            /\ At(s, nd + 1) = "-"
            /\ Len(s) >= pM + 2
            /\ At(s, pM + 3) = "-"
            /\ DigitRun(s, pY, 4) = 4
            /\ ns1 >= 1
            /\ nh >= 1
            /\ At(s, pH + nh) = ":"
            /\ nm >= 1
            /\ ns2 >= 1
            /\ Len(s) = pP + 1
    IN  IF /\ shape
           /\ mon # 0
           /\ day \in 1..DaysInMonth(year, mon)
           /\ year >= 1
           /\ hour \in 1..12
           /\ min \in 0..59
           /\ ampm \in {<<"a", "m">>, <<"p", "m">>}
        THEN [ok |-> TRUE, y |-> year, mo |-> mon, d |-> day,
              h |-> (hour % 12) + (IF ampm = <<"p", "m">> THEN 12 ELSE 0),
              mi |-> min]
        ELSE NaT

-----------------------------------------------------------------------------
(* Timestamp text *)

\* the text of t in the source file's form, '%d-%b-%Y %I:%M %p'
FormatDMY(t) ==
    LET h12 == IF t.h % 12 = 0 THEN 12 ELSE t.h % 12
    IN  Fmt2(t.d) \o <<"-">> \o MonthAbbr[t.mo] \o <<"-">> \o Fmt4(t.y) \o <<" ">>
        \o Fmt2(h12) \o <<":">> \o Fmt2(t.mi) \o <<" ">>
        \o <<(IF t.h >= 12 THEN "P" ELSE "A"), "M">>

FormatDate(t) == Fmt4(t.y) \o <<"-">> \o Fmt2(t.mo) \o <<"-">> \o Fmt2(t.d)

\* mutant: the export writes timestamps back in the source file's form
FormatDatetime_SourceForm(t, dates_only) == FormatDMY(t)

\* to_csv of a datetime64 cell: ISO text, the date alone when every value of
\* the column is at midnight
FormatDatetime(t, dates_only) ==
    IF dates_only THEN FormatDate(t)
    ELSE FormatDate(t) \o <<" ">> \o Fmt2(t.h) \o <<":">> \o Fmt2(t.mi) \o <<":", "0", "0">>

-----------------------------------------------------------------------------
(* load_data *)

StripRow(r) ==
    [r EXCEPT !.Modified_Item = StrStrip(@),
              !.Modify_Reason = StrStrip(@),
              !.Order_Entered_By = StrStrip(@),
              !.Who = StrStrip(@)]

RowKey(r) == <<r.Order_Number, r.Modified_Item>>

RECURSIVE KeepUnseen(_, _)
KeepUnseen(rows, seen) ==
    IF rows = <<>> THEN <<>>
    ELSE IF RowKey(Head(rows)) \in seen THEN KeepUnseen(Tail(rows), seen)
    ELSE <<Head(rows)>> \o KeepUnseen(Tail(rows), seen \cup {RowKey(Head(rows))})

RECURSIVE Reversed(_)
Reversed(rows) ==
    IF rows = <<>> THEN <<>> ELSE Append(Reversed(Tail(rows)), Head(rows))

\* mutant: keep='last'
DropDuplicates_KeepLast(rows) == Reversed(KeepUnseen(Reversed(rows), {}))

\* mutant: no row is dropped
DropDuplicates_None(rows) == rows

\* df.drop_duplicates(subset=['Order Number', 'Modified Item'], keep='first')
DropDuplicates(rows) == KeepUnseen(rows, {})

\* mutant: noon belongs to the morning
TimePeriod_NoonIsMorning(x) ==
    IF 6 <= x /\ x <= 12 THEN "Morning (6-12)"
    ELSE IF 12 <= x /\ x < 18 THEN "Afternoon (12-18)"
    ELSE IF 18 <= x /\ x < 24 THEN "Evening (18-24)"
    ELSE "Late Night (0-6)"

TimePeriod(x) ==
    IF 6 <= x /\ x < 12 THEN "Morning (6-12)"
    ELSE IF 12 <= x /\ x < 18 THEN "Afternoon (12-18)"
    ELSE IF 18 <= x /\ x < 24 THEN "Evening (18-24)"
    ELSE "Late Night (0-6)"

CancelDate(t) == [y |-> t.y, mo |-> t.mo, d |-> t.d]

\* one row of the returned frame: the parsed timestamps and the analysis columns
DfRow(r, ot, wh) ==
    [Order_Number       |-> r.Order_Number,
     Modified_Item      |-> r.Modified_Item,
     Modify_Reason      |-> r.Modify_Reason,
     Order_Entered_By   |-> r.Order_Entered_By,
     Who                |-> r.Who,
     Order_Time         |-> ot,
     When               |-> wh,
     Reduced_Amount     |-> r.Reduced_Amount,
     Cancel_Date        |-> CancelDate(wh),
     Cancel_Hour        |-> wh.h,
     Cancel_Day         |-> DayName(wh),
     Time_Period        |-> TimePeriod(wh.h),
     Time_to_Cancel_Min |-> EpochMinutes(wh) - EpochMinutes(ot)]

\* load_data(): ok is FALSE when pd.to_datetime raises
LoadDataResult(rows) ==
    LET stripped == [i \in 1..Len(rows) |-> StripRow(rows[i])]
        deduped  == DropDuplicates(stripped)
        ot       == [i \in 1..Len(deduped) |-> Strptime(deduped[i].Order_Time)]
        wh       == [i \in 1..Len(deduped) |-> Strptime(deduped[i].When)]
        ok       == \A i \in 1..Len(deduped) : ot[i].ok /\ wh[i].ok
    IN  [ok |-> ok,
         df |-> IF ok THEN [i \in 1..Len(deduped) |-> DfRow(deduped[i], ot[i], wh[i])]
                ELSE <<>>]

-----------------------------------------------------------------------------
(* Sidebar filters *)

ALL == <<"A", "l", "l">>

\* datetime.date comparison
DateLE(a, b) ==
    \/ a.y < b.y
    \/ a.y = b.y /\ a.mo < b.mo
    \/ a.y = b.y /\ a.mo = b.mo /\ a.d <= b.d

\* mutant: what the previous run showed is filtered again
FilterBase_Previous(base, previous) == previous

\* filtered_df = df.copy()
FilterBase(base, previous) == base

\* mutant: the upper bound is exclusive
DateFilter_UpperExclusive(rows, range) ==
    SelectSeq(rows, LAMBDA r :
        DateLE(range[1], r.Cancel_Date) /\ DateLE(r.Cancel_Date, range[2])
        /\ r.Cancel_Date # range[2])

\* mutant: the lower bound is the earliest date of the frame at hand, exclusive
DateFilter_AfterFrameMin(rows, range) ==
    SelectSeq(rows, LAMBDA r :
        /\ \E q \in {rows[i] : i \in 1..Len(rows)} :
              q.Cancel_Date # r.Cancel_Date /\ DateLE(q.Cancel_Date, r.Cancel_Date)
        /\ DateLE(r.Cancel_Date, range[2]))

\* mutant: an inverted range is swapped into order
DateFilter_SwapInverted(rows, range) ==
    LET lo == IF DateLE(range[1], range[2]) THEN range[1] ELSE range[2]
        hi == IF DateLE(range[1], range[2]) THEN range[2] ELSE range[1]
    IN  SelectSeq(rows, LAMBDA r : DateLE(lo, r.Cancel_Date) /\ DateLE(r.Cancel_Date, hi))

DateFilter(rows, range) ==
    SelectSeq(rows, LAMBDA r :
        DateLE(range[1], r.Cancel_Date) /\ DateLE(r.Cancel_Date, range[2]))

ApplyFilters(base, range, reason, staff, period) ==
    LET f1 == IF Len(range) = 2 THEN DateFilter(base, range) ELSE base
        f2 == IF reason # ALL
              THEN SelectSeq(f1, LAMBDA r : r.Modify_Reason = reason) ELSE f1
        f3 == IF staff # ALL
              THEN SelectSeq(f2, LAMBDA r : r.Order_Entered_By = staff) ELSE f2
        f4 == IF period # "All"
              THEN SelectSeq(f3, LAMBDA r : r.Time_Period = period) ELSE f3
    IN  f4

-----------------------------------------------------------------------------
(* Aggregation tables *)

\* code point order of the characters that occur in the model's text
CharOrder ==
    <<"\t", "\n", "\r", " ", "-", ".", "/", "0", "1", "2", "3", "4", "5", "6",
      "7", "8", "9", ":", "A", "B", "C", "D", "E", "F", "G", "H", "I", "J", "K",
      "L", "M", "N", "O", "P", "Q", "R", "S", "T", "U", "V", "W", "X", "Y", "Z",
      "a", "b", "c", "d", "e", "f", "g", "h", "i", "j", "k", "l", "m", "n", "o",
      "p", "q", "r", "s", "t", "u", "v", "w", "x", "y", "z">>

CharCode(c) == CHOOSE i \in 1..Len(CharOrder) : CharOrder[i] = c

\* str < str
RECURSIVE TextLess(_, _)
TextLess(a, b) ==
    IF b = <<>> THEN FALSE
    ELSE IF a = <<>> THEN TRUE
    ELSE IF Head(a) = Head(b) THEN TextLess(Tail(a), Tail(b))
    ELSE CharCode(Head(a)) < CharCode(Head(b))

\* the group keys in groupby's order (sort=True)
RECURSIVE SortedKeys(_)
SortedKeys(S) ==
    IF S = {} THEN <<>>
    ELSE LET k == CHOOSE x \in S : \A y \in S \ {x} : TextLess(x, y)
         IN  <<k>> \o SortedKeys(S \ {k})

RECURSIVE SumField(_, _)
SumField(rows, field) ==
    IF rows = <<>> THEN 0 ELSE rows[1][field] + SumField(Tail(rows), field)

\* groupby(field).agg(count, sum of 'Reduced Amount').reset_index()
GroupAgg(rows, field) ==
    LET keys == SortedKeys({rows[i][field] : i \in 1..Len(rows)})
    IN  [k \in 1..Len(keys) |->
            LET g == SelectSeq(rows, LAMBDA r : r[field] = keys[k])
            IN  [key |-> keys[k], count |-> Len(g),
                 total |-> SumField(g, "Reduced_Amount")]]

\* sort_values(field, ascending=False) with the default kind='quicksort', which
\* is not stable: every arrangement in non-increasing order of field is a
\* possible outcome
SortValuesDesc(rows, field) ==
    LET RECURSIVE Orders(_)
        Orders(idx) ==
            IF idx = {} THEN {<<>>}
            ELSE LET top == {i \in idx : \A j \in idx : rows[i][field] >= rows[j][field]}
                 IN  UNION {{<<rows[i]>> \o t : t \in Orders(idx \ {i})} : i \in top}
    IN  Orders(1..Len(rows))

TopN == 10

\* DataFrame.head(n)
HeadN(rows, n) == SubSeq(rows, 1, IF Len(rows) < n THEN Len(rows) ELSE n)

\* mutant: the sentinel item is not filtered out
ItemRows_WithSentinel(rows) == rows

\* filtered_df[filtered_df['Modified Item'] != '.']
ItemRows(rows) == SelectSeq(rows, LAMBDA r : r.Modified_Item # <<".">>)

\* the possible values of item_data
ItemData(rows) ==
    LET g == GroupAgg(ItemRows(rows), "Modified_Item")
        table == [k \in 1..Len(g) |->
                    [Modified_Item   |-> g[k].key,
                     Times_Cancelled |-> g[k].count,
                     Total_Amount    |-> g[k].total]]
    IN  {HeadN(t, TopN) : t \in SortValuesDesc(table, "Times_Cancelled")}

\* p / q rounded to the nearest integer, ties to even (q # 0)
RoundHalfEven(p, q) ==
    LET pp == IF q < 0 THEN -p ELSE p
        qq == IF q < 0 THEN -q ELSE q
        fl == IF pp >= 0 THEN pp \div qq ELSE -(((-pp) + qq - 1) \div qq)
        rm == pp - fl * qq
    IN  IF 2 * rm < qq THEN fl
        ELSE IF 2 * rm > qq THEN fl + 1
        ELSE IF fl % 2 = 0 THEN fl ELSE fl + 1

\* (amount / total * 100).round(2) in hundredths of a percent; a float division
\* by zero yields nan or an infinity, it does not raise
Percentage(amount, total) ==
    IF total # 0 THEN [kind |-> "num", val |-> RoundHalfEven(amount * 10000, total)]
    ELSE IF amount = 0 THEN [kind |-> "nan", val |-> 0]
    ELSE IF amount > 0 THEN [kind |-> "inf", val |-> 0]
    ELSE [kind |-> "-inf", val |-> 0]

\* mutant: the share is taken of the number of records
ShareDenominator_Count(table) == SumField(table, "Count")

\* reason_summary['Total_Amount'].sum()
ShareDenominator(table) == SumField(table, "Total_Amount")

\* the possible values of reason_summary; Avg_Amount is the exact quotient
\* <<numerator, denominator>>
ReasonSummary(rows) ==
    LET g == GroupAgg(rows, "Modify_Reason")
        table == [k \in 1..Len(g) |->
                    [Modify_Reason |-> g[k].key,
                     Count         |-> g[k].count,
                     Total_Amount  |-> g[k].total,
                     Avg_Amount    |-> <<g[k].total, g[k].count>>]]
    IN  {[k \in 1..Len(t) |->
            [Modify_Reason |-> t[k].Modify_Reason,
             Count         |-> t[k].Count,
             Total_Amount  |-> t[k].Total_Amount,
             Avg_Amount    |-> t[k].Avg_Amount,
             Percentage    |-> Percentage(t[k].Total_Amount, ShareDenominator(t))]]
         : t \in SortValuesDesc(table, "Total_Amount")}

-----------------------------------------------------------------------------
(* Download *)

\* DataFrame.to_csv(index=False): the timestamp columns and Cancel_Date become
\* text; the other cells are the values read_csv reads back
ToCsv(rows) ==
    LET ot_dates == \A i \in 1..Len(rows) : rows[i].Order_Time.h = 0 /\ rows[i].Order_Time.mi = 0
        wh_dates == \A i \in 1..Len(rows) : rows[i].When.h = 0 /\ rows[i].When.mi = 0
    IN  [i \in 1..Len(rows) |->
            [rows[i] EXCEPT !.Order_Time  = FormatDatetime(@, ot_dates),
                            !.When        = FormatDatetime(@, wh_dates),
                            !.Cancel_Date = FormatDate(@)]]

-----------------------------------------------------------------------------
(* Source files *)

MaxRows == 3

MaxItems == 12

DT(d, h, mi) == [ok |-> TRUE, y |-> 2025, mo |-> 5, d |-> d, h |-> h, mi |-> mi]

\* a timestamp in a form the source file does not use
IsoText(t) ==
    FormatDate(t) \o <<" ">> \o Fmt2(t.h) \o <<":">> \o Fmt2(t.mi) \o <<":", "0", "0">>

RawRow(on, item, reason, staff, ot, wh, amt) ==
    [Order_Number     |-> on,
     Modified_Item    |-> item,
     Modify_Reason    |-> reason,
     Order_Entered_By |-> staff,
     Who              |-> <<"w", " ">>,
     Order_Time       |-> ot,
     When             |-> wh,
     Reduced_Amount   |-> amt]

\* the rows the small source files are made of: a repeated key with and without
\* surrounding whitespace, the sentinel item, timestamps in each time period,
\* one at midnight, two that do not conform, and amounts of both signs
RowChoices ==
    {RawRow(100, <<"B">>, <<"O">>, <<"a">>,
            FormatDMY(DT(1, 11, 0)), FormatDMY(DT(1, 11, 59)), 5),
     RawRow(100, <<" ", "B", " ">>, <<"O", " ">>, <<" ", "a">>,
            FormatDMY(DT(1, 11, 0)), FormatDMY(DT(2, 12, 0)), 2),
     RawRow(101, <<".">>, <<"V">>, <<"b">>,
            FormatDMY(DT(1, 0, 0)), FormatDMY(DT(2, 0, 0)), -5),
     RawRow(100, <<"B">>, <<"V">>, <<"b">>,
            FormatDMY(DT(1, 11, 0)), IsoText(DT(2, 13, 30)), 7),
     RawRow(101, <<"F">>, <<"O">>, <<"b">>,
            FormatDMY(DT(2, 19, 0)), FormatDMY(DT(1, 18, 30)), 0),
     RawRow(102, <<"F">>, <<"V">>, <<"a">>,
            <<"n", "/", "a">>, FormatDMY(DT(2, 6, 0)), 2)}

RECURSIVE SeqsUpTo(_, _)
SeqsUpTo(S, n) ==
    IF n = 0 THEN {<<>>}
    ELSE LET shorter == SeqsUpTo(S, n - 1)
         IN  shorter \cup {Append(q, x) : q \in {t \in shorter : Len(t) = n - 1}, x \in S}

SourceFiles == SeqsUpTo(RowChoices, MaxRows)

Letters ==
    <<"A", "B", "C", "D", "E", "F", "G", "H", "I", "J", "K", "L", "M", "N", "O",
      "P", "Q", "R", "S", "T", "U", "V", "W", "X", "Y", "Z">>

WideRow(on, item, h, mi) ==
    RawRow(on, item, <<"O">>, <<"a">>, FormatDMY(DT(1, 0, 0)), FormatDMY(DT(1, h, mi)), 1)

\* one row for each hour of the day, at minute mi
HourFile(mi) == [i \in 1..24 |-> WideRow(i, <<"B">>, i - 1, mi)]

\* n rows of item, numbered from on
Repeat(item, n, on) == [j \in 1..n |-> WideRow(on + j, item, 9, 0)]

\* k items, item i cancelled 1 + ((i + a) % m) times, and dots rows of the
\* sentinel item
RECURSIVE ItemRowsUpTo(_, _, _)
ItemRowsUpTo(k, m, a) ==
    IF k = 0 THEN <<>>
    ELSE ItemRowsUpTo(k - 1, m, a) \o Repeat(<<Letters[k]>>, 1 + ((k + a) % m), 100 * k)

ItemFile(k, m, a, dots) == Repeat(<<".">>, dots, 0) \o ItemRowsUpTo(k, m, a)

WideFiles ==
    {HourFile(mi) : mi \in {0, 30, 59}}
    \cup {ItemFile(k, m, a, dots) :
            k \in 0..MaxItems, m \in 4..5, a \in 0..1, dots \in {0, 6}}

-----------------------------------------------------------------------------
(* The session *)

Init0 ==
    /\ status = "start"
    /\ df = <<>>
    /\ date_range = <<>>
    /\ selected_reason = ALL
    /\ selected_staff = ALL
    /\ selected_period = "All"
    /\ filtered_df = <<>>
    /\ item_data = <<>>
    /\ reason_summary = <<>>
    /\ csv = <<>>
    /\ full_csv = <<>>
    /\ exported = <<>>
    /\ reimported = FALSE
    /\ first_view = <<>>
    /\ visited_other = FALSE

Init == source_csv \in SourceFiles /\ Init0

InitWide == source_csv \in WideFiles /\ Init0

\* df = load_data()
LoadData ==
    /\ status = "start"
    /\ LET res == LoadDataResult(source_csv)
       IN  /\ status' = IF res.ok THEN "loaded" ELSE "parse_error"
           /\ df' = res.df
    /\ UNCHANGED <<source_csv, date_range, selected_reason, selected_staff,
                   selected_period, filtered_df, item_data, reason_summary, csv,
                   full_csv, exported, reimported, first_view, visited_other>>

Dates(rows) == {rows[i].Cancel_Date : i \in 1..Len(rows)}

MinDate(rows) == CHOOSE x \in Dates(rows) : \A y \in Dates(rows) : DateLE(x, y)

MaxDate(rows) == CHOOSE x \in Dates(rows) : \A y \in Dates(rows) : DateLE(y, x)

\* what st.sidebar.date_input can return: up to two dates
DateRanges(rows) ==
    {<<>>} \cup {<<a>> : a \in Dates(rows)} \cup (Dates(rows) \X Dates(rows))

ReasonOptions(rows) == {ALL} \cup {rows[i].Modify_Reason : i \in 1..Len(rows)}

StaffOptions(rows) == {ALL} \cup {rows[i].Order_Entered_By : i \in 1..Len(rows)}

PeriodOptions(rows) == {"All"} \cup {rows[i].Time_Period : i \in 1..Len(rows)}

\* the script below load_data, with the widgets at the given values
Script(range, reason, staff, period) ==
    LET f == ApplyFilters(FilterBase(df, filtered_df), range, reason, staff, period)
    IN  /\ status' = "ran"
        /\ date_range' = range
        /\ selected_reason' = reason
        /\ selected_staff' = staff
        /\ selected_period' = period
        /\ filtered_df' = f
        /\ csv' = ToCsv(f)
        /\ full_csv' = ToCsv(df)
        /\ item_data' \in ItemData(f)
        /\ reason_summary' \in ReasonSummary(f)
        /\ UNCHANGED <<source_csv, df, exported, reimported>>

\* the first run: every widget at its default value
FirstRun ==
    /\ status = "loaded"
    /\ df # <<>>
    /\ Script(<<MinDate(df), MaxDate(df)>>, ALL, ALL, "All")
    /\ first_view' = filtered_df'
    /\ visited_other' = FALSE

\* min_date and max_date of an empty frame are nan, which date_input rejects
WidgetError ==
    /\ status = "loaded"
    /\ df = <<>>
    /\ status' = "widget_error"
    /\ UNCHANGED <<source_csv, df, date_range, selected_reason, selected_staff,
                   selected_period, filtered_df, item_data, reason_summary, csv,
                   full_csv, exported, reimported, first_view, visited_other>>

\* history kept across the later runs
Revisit ==
    /\ UNCHANGED first_view
    /\ visited_other' = (visited_other \/ filtered_df' # first_view)

\* a widget changes and the script runs again
ChangeDateRange ==
    /\ status = "ran"
    /\ \E range \in DateRanges(df) :
          Script(range, selected_reason, selected_staff, selected_period)
    /\ Revisit

ChangeReason ==
    /\ status = "ran"
    /\ \E reason \in ReasonOptions(df) :
          Script(date_range, reason, selected_staff, selected_period)
    /\ Revisit

ChangeStaff ==
    /\ status = "ran"
    /\ \E staff \in StaffOptions(df) :
          Script(date_range, selected_reason, staff, selected_period)
    /\ Revisit

ChangePeriod ==
    /\ status = "ran"
    /\ \E period \in PeriodOptions(df) :
          Script(date_range, selected_reason, selected_staff, period)
    /\ Revisit

\* the filtered download replaces the source file and the process starts anew
Reimport ==
    /\ status = "ran"
    /\ ~reimported
    /\ source_csv' = csv
    /\ exported' = filtered_df
    /\ reimported' = TRUE
    /\ status' = "start"
    /\ df' = <<>>
    /\ date_range' = <<>>
    /\ selected_reason' = ALL
    /\ selected_staff' = ALL
    /\ selected_period' = "All"
    /\ filtered_df' = <<>>
    /\ item_data' = <<>>
    /\ reason_summary' = <<>>
    /\ csv' = <<>>
    /\ full_csv' = <<>>
    /\ first_view' = <<>>
    /\ visited_other' = FALSE

Next ==
    \/ LoadData
    \/ FirstRun
    \/ WidgetError
    \/ ChangeDateRange
    \/ ChangeReason
    \/ ChangeStaff
    \/ ChangePeriod
    \/ Reimport

Spec == Init /\ [][Next]_vars

NextWide ==
    \/ LoadData
    \/ FirstRun
    \/ WidgetError

SpecWide == InitWide /\ [][NextWide]_vars

-----------------------------------------------------------------------------
(* Properties *)

Loaded == status \in {"loaded", "ran", "widget_error"}

Ran == status = "ran"

Range(q) == {q[i] : i \in 1..Len(q)}

\* s without its leading and trailing whitespace, by position
Trimmed(s) ==
    LET ink == {i \in 1..Len(s) : ~IsSpace(s[i])}
    IN  IF ink = {} THEN <<>>
        ELSE SubSeq(s, CHOOSE a \in ink : \A b \in ink : a <= b,
                       CHOOSE a \in ink : \A b \in ink : b <= a)

\* row i is the first row of the file with its (Order Number, trimmed item) key
FirstOfKey(rows, i) ==
    ~ \E j \in 1..(i - 1) :
        /\ rows[j].Order_Number = rows[i].Order_Number
        /\ Trimmed(rows[j].Modified_Item) = Trimmed(rows[i].Modified_Item)

Firsts(rows) == {i \in 1..Len(rows) : FirstOfKey(rows, i)}

\* the position in q's selection of index i of the index set keep
Rank(keep, i) == Cardinality({j \in keep : j <= i})

Malformed(r) == ~Strptime(r.Order_Time).ok \/ ~Strptime(r.When).ok

DateNum(d) == d.y * 10000 + d.mo * 100 + d.d

\* C1: after a load, the dataset holds exactly one record per (Order Number,
\* trimmed Modified Item) key, that record comes from the first row of the file
\* carrying the key, and the records are in the order of those rows.
C1_DedupKeepsFirstInOrder ==
    Loaded =>
        /\ Len(df) = Cardinality(Firsts(source_csv))
        /\ \A i \in Firsts(source_csv) :
              LET rec == df[Rank(Firsts(source_csv), i)]
                  row == source_csv[i]
              IN  /\ rec.Order_Number = row.Order_Number
                  /\ rec.Modified_Item = Trimmed(row.Modified_Item)
                  /\ rec.Modify_Reason = Trimmed(row.Modify_Reason)
                  /\ rec.Order_Entered_By = Trimmed(row.Order_Entered_By)
                  /\ rec.Reduced_Amount = row.Reduced_Amount
        /\ \A a, b \in 1..Len(df) :
              (df[a].Order_Number = df[b].Order_Number
               /\ df[a].Modified_Item = df[b].Modified_Item) => a = b

\* a file whose second row repeats the first row's key behind whitespace, with
\* another amount, has been loaded
C1_Witness ==
    /\ status = "loaded"
    /\ Len(source_csv) = 3
    /\ Len(df) = 2
    /\ source_csv[1].Order_Number = source_csv[2].Order_Number
    /\ source_csv[1].Modified_Item # source_csv[2].Modified_Item
    /\ Trimmed(source_csv[1].Modified_Item) = Trimmed(source_csv[2].Modified_Item)
    /\ source_csv[1].Reduced_Amount # source_csv[2].Reduced_Amount
    /\ df[1].Reduced_Amount = source_csv[1].Reduced_Amount

Periods == {"Morning (6-12)", "Afternoon (12-18)", "Evening (18-24)", "Late Night (0-6)"}

\* C2: every record's Cancel_Hour is one of 0..23 and its Time_Period is the
\* one bucket of that hour: 6..11 Morning, 12..17 Afternoon, 18..23 Evening,
\* 0..5 Late Night.
C2_BucketsTotalExclusive ==
    Loaded =>
        \A i \in 1..Len(df) :
            LET h == df[i].Cancel_Hour
                p == df[i].Time_Period
            IN  /\ h \in 0..23
                /\ Cardinality({b \in Periods : b = p}) = 1
                /\ h \in 6..11 => p = "Morning (6-12)"
                /\ h \in 12..17 => p = "Afternoon (12-18)"
                /\ h \in 18..23 => p = "Evening (18-24)"
                /\ h \in 0..5 => p = "Late Night (0-6)"

\* a dataset with a record in each hour of the day, the boundary hours in the
\* buckets they start
C2_Witness ==
    /\ status = "loaded"
    /\ {df[i].Cancel_Hour : i \in 1..Len(df)} = 0..23
    /\ \E i \in 1..Len(df) : df[i].Cancel_Hour = 6 /\ df[i].Time_Period = "Morning (6-12)"
    /\ \E i \in 1..Len(df) : df[i].Cancel_Hour = 12 /\ df[i].Time_Period = "Afternoon (12-18)"
    /\ \E i \in 1..Len(df) : df[i].Cancel_Hour = 18 /\ df[i].Time_Period = "Evening (18-24)"
    /\ \E i \in 1..Len(df) : df[i].Cancel_Hour = 0 /\ df[i].Time_Period = "Late Night (0-6)"

DateActive == Len(date_range) = 2

InDateRange(r) ==
    /\ DateNum(date_range[1]) <= DateNum(r.Cancel_Date)
    /\ DateNum(r.Cancel_Date) <= DateNum(date_range[2])

OtherPredicates(r) ==
    /\ selected_reason # ALL => r.Modify_Reason = selected_reason
    /\ selected_staff # ALL => r.Order_Entered_By = selected_staff
    /\ selected_period # "All" => r.Time_Period = selected_period

\* r satisfies every active predicate of the current filter specification
Satisfies(r) == (DateActive => InDateRange(r)) /\ OtherPredicates(r)

Kept == {i \in 1..Len(df) : Satisfies(df[i])}

\* C3: after a script run, filtered_df holds exactly the records of df that
\* satisfy every active predicate, each once, in df's order.
C3_FilterIsConjunction ==
    Ran =>
        /\ Len(filtered_df) = Cardinality(Kept)
        /\ \A i \in Kept : filtered_df[Rank(Kept, i)] = df[i]

\* two predicates are active and each of them alone excludes a record
C3_Witness ==
    /\ Ran
    /\ DateActive
    /\ selected_reason # ALL
    /\ filtered_df # <<>>
    /\ \E i \in 1..Len(df) : InDateRange(df[i]) /\ ~OtherPredicates(df[i])
    /\ \E i \in 1..Len(df) : ~InDateRange(df[i]) /\ OtherPredicates(df[i])

\* C4 as claimed: once a download has replaced the source file and has been
\* loaded, the load has succeeded and the dataset equals the exported subset.
C4_RoundTripAsClaimed ==
    (reimported /\ status # "start") => (status # "parse_error" /\ df = exported)

\* C4: to_csv writes the timestamps as ISO text, which the fixed-format parse
\* rejects: loading a download fails with the parse error whenever the exported
\* subset has a record, and yields the empty dataset when it has none.
C4_ExportDoesNotReload ==
    (reimported /\ status # "start") =>
        /\ exported # <<>> => (status = "parse_error" /\ df = <<>>)
        /\ exported = <<>> => (status # "parse_error" /\ df = exported)

\* the download of a subset of two records has been fed back and rejected
C4_Witness ==
    /\ reimported
    /\ status = "parse_error"
    /\ Len(exported) = 2
    /\ Len(source_csv) = 2
    /\ \A i \in 1..2 : source_csv[i].Order_Number = exported[i].Order_Number

SumAmounts(q) == SumField(q, "Reduced_Amount")

RECURSIVE SumPercent(_)
SumPercent(t) ==
    IF t = <<>> THEN 0 ELSE t[1].Percentage.val + SumPercent(Tail(t))

AllDefined(t) == \A k \in 1..Len(t) : t[k].Percentage.kind = "num"

\* the percentages add up to 100.00, each being off by at most half a hundredth
SumsTo100(t) ==
    LET off == SumPercent(t) - 10000
    IN  2 * off <= Len(t) /\ -2 * off <= Len(t)

\* C5 as claimed: for every non-empty subset the percentages are all defined
\* and sum to 100.00 within rounding; for the empty subset the table is empty.
C5_SharesAsClaimed ==
    Ran =>
        /\ filtered_df # <<>> => (AllDefined(reason_summary) /\ SumsTo100(reason_summary))
        /\ filtered_df = <<>> => reason_summary = <<>>

\* C5: for a non-empty subset whose amounts do not sum to zero the percentages
\* are all defined and sum to 100.00 within rounding; when the amounts sum to
\* zero no percentage is a number (nan or an infinity); for the empty subset
\* the table is empty.
C5_SharesWhenTotalNonzero ==
    Ran =>
        /\ (filtered_df # <<>> /\ SumAmounts(filtered_df) # 0) =>
              (AllDefined(reason_summary) /\ SumsTo100(reason_summary))
        /\ (filtered_df # <<>> /\ SumAmounts(filtered_df) = 0) =>
              (reason_summary # <<>>
               /\ \A k \in 1..Len(reason_summary) : reason_summary[k].Percentage.kind # "num")
        /\ filtered_df = <<>> => reason_summary = <<>>

\* two reasons, amounts of both signs, a nonzero total and shares that are
\* not whole hundredths before rounding
C5_Witness ==
    /\ Ran
    /\ Len(reason_summary) = 2
    /\ SumAmounts(filtered_df) # 0
    /\ \E k \in 1..2 : reason_summary[k].Total_Amount < 0
    /\ \E k \in 1..2 :
          LET t == SumAmounts(filtered_df)
          IN  (reason_summary[k].Total_Amount * 10000) % (IF t < 0 THEN -t ELSE t) # 0

Sentinel == <<".">>

ItemsOf(q) == {q[i].Modified_Item : i \in 1..Len(q)} \ {Sentinel}

TimesIn(q, x) == Cardinality({i \in 1..Len(q) : q[i].Modified_Item = x})

ShownItems == {item_data[k].Modified_Item : k \in 1..Len(item_data)}

\* no sentinel row, one row per item with its count, at most ten rows, counts
\* non-increasing, and nothing left out that was cancelled more often than a
\* row that is shown
TopItemsShape ==
    /\ Sentinel \notin ShownItems
    /\ ShownItems \subseteq ItemsOf(filtered_df)
    /\ Cardinality(ShownItems) = Len(item_data)
    /\ \A k \in 1..Len(item_data) :
          item_data[k].Times_Cancelled = TimesIn(filtered_df, item_data[k].Modified_Item)
    /\ Len(item_data) <= 10
    /\ \A a, b \in 1..Len(item_data) :
          a < b => item_data[a].Times_Cancelled >= item_data[b].Times_Cancelled
    /\ \A x \in ItemsOf(filtered_df) \ ShownItems :
          \A k \in 1..Len(item_data) :
              TimesIn(filtered_df, x) <= item_data[k].Times_Cancelled

\* items with equal counts appear in group order
TiesInGroupOrder ==
    \A a, b \in 1..Len(item_data) :
        (a < b /\ item_data[a].Times_Cancelled = item_data[b].Times_Cancelled)
            => TextLess(item_data[a].Modified_Item, item_data[b].Modified_Item)

\* C6 as claimed: the top-items table has the shape above and items with equal
\* counts appear in group order.
C6_TopItemsAsClaimed == Ran => (TopItemsShape /\ TiesInGroupOrder)

\* C6: the top-items table never has a row for the sentinel item, has at most
\* 10 rows, is sorted by Times_Cancelled in non-increasing order, and every
\* item left out has a count no greater than the smallest count kept; the
\* order of items with equal counts is not determined.
C6_TopItems == Ran => TopItemsShape

\* more than ten items, the sentinel item cancelled most often of all, ten
\* rows shown with a tie that is not in group order
C6_Witness ==
    /\ Ran
    /\ Cardinality(ItemsOf(filtered_df)) > 10
    /\ Len(item_data) = 10
    /\ \A k \in 1..Len(item_data) :
          TimesIn(filtered_df, Sentinel) > item_data[k].Times_Cancelled
    /\ ~TiesInGroupOrder

C8_FilterIdempotent ==
    Ran =>
        ApplyFilters(filtered_df, date_range, selected_reason, selected_staff,
                     selected_period) = filtered_df

\* a filter with an active date range and a selected staff member has removed
\* a record and kept records of two dates
C8_Witness ==
    /\ Ran
    /\ DateActive
    /\ selected_staff # ALL
    /\ Len(filtered_df) = 2
    /\ Len(df) = 3
    /\ filtered_df[1].Cancel_Date # filtered_df[2].Cancel_Date

\* C9: with both bounds given and lower > upper the run succeeds and the
\* result is empty whatever the other predicates; with lower <= upper a record
\* whose Cancel_Date equals either bound, and that passes the other
\* predicates, is kept.
C9_InvertedRangeIsEmpty ==
    (Ran /\ DateActive) =>
        /\ DateNum(date_range[1]) > DateNum(date_range[2]) => filtered_df = <<>>
        /\ DateNum(date_range[1]) <= DateNum(date_range[2]) =>
              \A i \in 1..Len(df) :
                  (df[i].Cancel_Date \in {date_range[1], date_range[2]}
                   /\ OtherPredicates(df[i])) => df[i] \in Range(filtered_df)

\* an inverted range over a dataset with records on both bounds, the other
\* widgets at 'All'
C9_Witness ==
    /\ Ran
    /\ DateActive
    /\ DateNum(date_range[1]) > DateNum(date_range[2])
    /\ selected_reason = ALL /\ selected_staff = ALL /\ selected_period = "All"
    /\ \E i \in 1..Len(df) : df[i].Cancel_Date = date_range[1]
    /\ \E i \in 1..Len(df) : df[i].Cancel_Date = date_range[2]
    /\ filtered_df = <<>>

DefaultSelection ==
    /\ date_range = <<MinDate(df), MaxDate(df)>>
    /\ selected_reason = ALL
    /\ selected_staff = ALL
    /\ selected_period = "All"

\* C10: a script run leaves the cached dataset as it was, shows the subset
\* that the current selection picks from the cached dataset alone, and shows
\* the first run's subset again whenever the selection is the first run's.
C10_NoResidue ==
    [][(status \in {"loaded", "ran"} /\ status' = "ran") =>
          /\ df' = df
          /\ filtered_df' = ApplyFilters(df, date_range', selected_reason',
                                         selected_staff', selected_period')
          /\ DefaultSelection' => filtered_df' = first_view']_vars

\* the first run's selection is back after a run that showed another subset
C10_Witness ==
    /\ Ran
    /\ visited_other
    /\ DefaultSelection
    /\ Len(df) = 3
    /\ filtered_df = first_view
    /\ filtered_df = df

====
